---- MODULE Spec2Model ----
(***************************************************************************)
(* A model of the batch classification pipeline:                           *)
(*   build_requests_jsonl.py   (Unit Builder)                              *)
(*   run_batch_and_export.py   (Job Submitter, Job Tracker, Result Parser) *)
(*   combine_files.py, cleanup_existing_classifications.py,                *)
(*   find_missing_skus.py      (Reconciler)                                *)
(*                                                                         *)
(* Strings whose content the code inspects (identifiers, custom_ids,       *)
(* payloads) are sequences of tokens, so that a prefix test, a strip or a  *)
(* decode is computed and not looked up.                                   *)
(***************************************************************************)
EXTENDS Integers, Sequences, FiniteSets, TLC

VARIABLES
    \* build_requests_jsonl.py
    df,             \* the rows of INPUT_EXCEL, in order (each row: its sku)
    batch_size,     \* BATCH_SIZE
    chunk_size,     \* CHUNK_SIZE
    batch_chunks,   \* OUTPUT_DIR: chunk index -> the requests of requests_chunk_<i>.jsonl
    chunk_idx,      \* main's loop variable
    build_pc,       \* main's position: "loop" | "done"
    \* run_batch_and_export.py: parse_response_content as a function under test
    content,        \* the payload handed to parse_response_content
    custom_id,      \* its custom_id
    parsed_data,    \* what the call returned (<<>> before the call)
    parse_pc,       \* "call" | "returned"
    \* run_batch_and_export.py: process_results_to_excel
    line_num,       \* the number of the line being processed (0 before the first)
    line,           \* the response record on that line
    rows,           \* the records collected so far
    appended,       \* the records the current line added to rows
    stream_pc,      \* "lines" | "written"
    \* EXCEL_OUTPUT_DIR
    excel_outputs,  \* the product_mapping_chunk_*.xlsx files, in order of creation
    \* combine_files.py, cleanup_existing_classifications.py, find_missing_skus.py
    original_df,    \* ORIGINAL_EXCEL: the universe, in order (each row: its sku)
    today,          \* the date datetime.now() gives
    latest_files,   \* the files the last combine read, in the order it read them
    master,         \* MASTER_OUTPUT_FILE: [exists, rows]
    missing_skus,   \* the residual find_remaining_missing_products computed last
    remaining_missing_file,  \* remaining_missing_products_expert.xlsx: [exists, rows]
    missing_products_file,   \* missing_products_for_reprocessing.xlsx: [exists, rows]
    recon_pc,       \* the reconciliation step made last: "none" | "run" | "day" | "combine" | "cleanup" | "find_missing"
    \* run_batch_and_export.py: main, and the batch service it talks to
    chunk_files,        \* the sorted chunk ids of the .jsonl files of BATCH_CHUNKS_DIR
    submit_idx,         \* the position of the submission loop in chunk_files
    active_batches,     \* the dict, in insertion order: [batch_id, chunk_id]
    completed_batches,  \* the batch ids this poll cycle marked for removal
    completed_chunks,   \* [chunk_id, batch_id, row_count] of every dataset written
    poll_idx,           \* the position of the for loop in active_batches
    remote,             \* the service: batch id -> [status, output_file_id present, input (chunk id)]
    downloads,          \* the batch ids whose output was downloaded, in order
    printed,            \* the last line main printed: [what, batch_id]
    run_pc              \* "idle" | "submit" | "poll" | "done"

build_vars == <<df, batch_size, chunk_size, batch_chunks, chunk_idx, build_pc>>

parse_vars == <<content, custom_id, parsed_data, parse_pc>>

stream_vars == <<line_num, line, rows, appended, stream_pc>>

recon_vars == <<original_df, today, latest_files, master, missing_skus,
                remaining_missing_file, missing_products_file, recon_pc>>

run_vars == <<chunk_files, submit_idx, active_batches, completed_batches,
              completed_chunks, poll_idx, remote, downloads, printed, run_pc>>

vars == <<build_vars, parse_vars, stream_vars, excel_outputs, recon_vars, run_vars>>

(***************************************************************************)
(* Bounds                                                                  *)
(***************************************************************************)
MaxItems == 4
MaxBatchSize == 3
MaxChunkSize == 4
MaxContentLen == 5
MaxLines == 2
MaxFiles == 2
MaxDate == 2
MaxChunkFiles == 2
MaxJobs == 2

(***************************************************************************)
(* Generic helpers                                                         *)
(***************************************************************************)
SeqsUpTo(S, n) == UNION {[1..k -> S] : k \in 0..n}

Min(a, b) == IF a < b THEN a ELSE b

\* math.ceil(a / b) for a >= 0, b >= 1
Ceil(a, b) == (a + b - 1) \div b

\* str(n) for the small numbers the model uses
Str(n) == <<"0", "1", "2", "3", "4", "5", "6", "7", "8", "9", "10", "11", "12">>[n + 1]

\* df.iloc[start:end]  (0-based, end exclusive)
Iloc(s, start, end) == SubSeq(s, start + 1, end)

EmptyDir == [i \in {} |-> <<>>]

\* the concatenation of a sequence of sequences
RECURSIVE Flatten(_)
Flatten(ss) == IF ss = <<>> THEN <<>> ELSE Head(ss) \o Flatten(Tail(ss))

(***************************************************************************)
(* Unit Builder: build_requests_jsonl.py                                   *)
(***************************************************************************)
Skus == {<<"A1">>, <<"A2">>, <<"A3">>}

\* a slip: the chunk id left out of the custom_id
CustomIdNoChunk(chunk_id, batch_idx) == <<"chunk_", "0", "_batch_", Str(batch_idx)>>

\* f"chunk_{chunk_id}_batch_{batch_idx}"
CustomId(chunk_id, batch_idx) == <<"chunk_", chunk_id, "_batch_", Str(batch_idx)>>

\* one request of create_batched_requests: custom_id and the items of the user message
Request(chunk_df, chunk_id, batch_idx, bs) ==
    LET start_idx == batch_idx * bs
        end_idx == Min(start_idx + bs, Len(chunk_df))
    IN [custom_id |-> CustomId(chunk_id, batch_idx),
        items |-> Iloc(chunk_df, start_idx, end_idx)]

\* a slip: floor instead of ceil, the trailing partial sub-batch is lost
CreateBatchedRequestsFloor(chunk_df, chunk_id, bs) ==
    [b \in 1..(Len(chunk_df) \div bs) |-> Request(chunk_df, chunk_id, b - 1, bs)]

CreateBatchedRequests(chunk_df, chunk_id, bs) ==
    LET total_batches == Ceil(Len(chunk_df), bs)
    IN [b \in 1..total_batches |-> Request(chunk_df, chunk_id, b - 1, bs)]

TotalChunks == Ceil(Len(df), chunk_size)

\* one iteration of main's loop: slice the chunk, build its requests, write its file
WriteChunk ==
    /\ build_pc = "loop"
    /\ chunk_idx < TotalChunks
    /\ LET start_idx == chunk_idx * chunk_size
           end_idx == Min(start_idx + chunk_size, Len(df))
           chunk_df == Iloc(df, start_idx, end_idx)
           requests == CreateBatchedRequests(chunk_df, Str(chunk_idx), batch_size)
       IN batch_chunks' = (chunk_idx :> requests) @@ batch_chunks
    /\ chunk_idx' = chunk_idx + 1
    /\ UNCHANGED <<df, batch_size, chunk_size, build_pc>>
    /\ UNCHANGED <<parse_vars, stream_vars, excel_outputs, recon_vars, run_vars>>

BuildDone ==
    /\ build_pc = "loop"
    /\ chunk_idx = TotalChunks
    /\ build_pc' = "done"
    /\ UNCHANGED <<df, batch_size, chunk_size, batch_chunks, chunk_idx>>
    /\ UNCHANGED <<parse_vars, stream_vars, excel_outputs, recon_vars, run_vars>>

BuildIdle ==
    /\ df = <<>>
    /\ batch_size = 1
    /\ chunk_size = 1
    /\ batch_chunks = EmptyDir
    /\ chunk_idx = 0
    /\ build_pc = "done"

\* no response record: the value of line before the first line is read
NoLine ==
    [json_ok |-> FALSE, has_custom_id |-> FALSE, custom_id |-> <<>>,
     response |-> "absent", content |-> <<>>, error |-> "absent"]

StreamIdle ==
    /\ line_num = 0
    /\ line = NoLine
    /\ rows = <<>>
    /\ appended = <<>>
    /\ stream_pc = "written"

NoFile == [exists |-> FALSE, rows |-> <<>>]

ReconIdle ==
    /\ original_df = <<>>
    /\ today = 1
    /\ latest_files = <<>>
    /\ master = NoFile
    /\ missing_skus = {}
    /\ remaining_missing_file = NoFile
    /\ missing_products_file = NoFile
    /\ recon_pc = "none"

RunIdle ==
    /\ chunk_files = <<>>
    /\ submit_idx = 1
    /\ active_batches = <<>>
    /\ completed_batches = <<>>
    /\ completed_chunks = <<>>
    /\ poll_idx = 1
    /\ remote = <<>>
    /\ downloads = <<>>
    /\ printed = [what |-> "", batch_id |-> 0]
    /\ run_pc = "idle"

ParseIdle ==
    /\ content = <<>>
    /\ custom_id = <<>>
    /\ parsed_data = <<>>
    /\ parse_pc = "returned"

InitBuild ==
    /\ RunIdle
    /\ ReconIdle
    /\ ParseIdle
    /\ StreamIdle
    /\ excel_outputs = <<>>
    /\ df \in SeqsUpTo(Skus, MaxItems)
    /\ batch_size \in 1..MaxBatchSize
    /\ chunk_size \in 1..MaxChunkSize
    /\ batch_chunks = EmptyDir
    /\ chunk_idx = 0
    /\ build_pc = "loop"

NextBuild == WriteChunk \/ BuildDone

SpecBuild == InitBuild /\ [][NextBuild]_vars

(***************************************************************************)
(* Result Parser: run_batch_and_export.py                                  *)
(*                                                                         *)
(* A payload is a sequence of tokens: whitespace, the fence ```, the word  *)
(* json, the brackets and the comma, prose, a digit, and whole JSON object *)
(* literals.  Adjacent digits read as one number, as in the text.          *)
(***************************************************************************)
WS == [t |-> "ws"]
FENCE == [t |-> "fence"]
JSONWORD == [t |-> "json"]
LBR == [t |-> "["]
RBR == [t |-> "]"]
COMMA == [t |-> ","]
TXT == [t |-> "txt"]
NUM == [t |-> "num"]
Obj(d) == [t |-> "obj", d |-> d]

\* {"sku":"A1","product_type_de":"Bohrer"}
ObjA1 == Obj([sku |-> <<"A1">>, product_type_de |-> <<"Bohrer">>])
\* {"sku":"A2"}: the label field is missing
ObjNoType == Obj([sku |-> <<"A2">>])

\* {"sku":"A2","product_type_de":"NoJSONFound"}: the model answers with the text of a sentinel label
ObjA2Sentinel == Obj([sku |-> <<"A2">>, product_type_de |-> <<"NoJSONFound">>])

Tokens == {WS, FENCE, JSONWORD, LBR, RBR, COMMA, TXT, NUM, ObjA1, ObjNoType}

\* str.strip()
RECURSIVE LStrip(_)
LStrip(s) == IF s # <<>> /\ Head(s) = WS THEN LStrip(Tail(s)) ELSE s

RECURSIVE RStrip(_)
RStrip(s) == IF s # <<>> /\ s[Len(s)] = WS THEN RStrip(SubSeq(s, 1, Len(s) - 1)) ELSE s

Strip(s) == RStrip(LStrip(s))

\* content.replace('```', '')
RECURSIVE RemoveFences(_)
RemoveFences(s) ==
    IF s = <<>> THEN <<>>
    ELSE IF Head(s) = FENCE THEN RemoveFences(Tail(s))
    ELSE <<Head(s)>> \o RemoveFences(Tail(s))

CleanResponseContent(c) ==
    LET c1 == Strip(c)
        c2 == IF Len(c1) >= 2 /\ c1[1] = FENCE /\ c1[2] = JSONWORD THEN SubSeq(c1, 3, Len(c1))
              ELSE IF Len(c1) >= 1 /\ c1[1] = FENCE THEN Tail(c1)
              ELSE c1
        c3 == IF Len(c2) >= 1 /\ c2[Len(c2)] = FENCE THEN SubSeq(c2, 1, Len(c2) - 1) ELSE c2
    IN Strip(RemoveFences(c3))

\* content.find('['): 0 when absent
Find(s, tok) ==
    IF \E i \in 1..Len(s) : s[i] = tok
    THEN CHOOSE i \in 1..Len(s) : s[i] = tok /\ \A j \in 1..(i - 1) : s[j] # tok
    ELSE 0

\* content.rfind(']'): 0 when absent
RFind(s, tok) ==
    IF \E i \in 1..Len(s) : s[i] = tok
    THEN CHOOSE i \in 1..Len(s) : s[i] = tok /\ \A j \in (i + 1)..Len(s) : s[j] # tok
    ELSE 0

NoSpan == [found |-> FALSE, json_str |-> <<>>]

ExtractJsonArray(c) ==
    LET start_pos == Find(c, LBR)
        end_pos == RFind(c, RBR)
    IN IF start_pos # 0 /\ end_pos # 0 /\ start_pos < end_pos
       THEN [found |-> TRUE, json_str |-> SubSeq(c, start_pos, end_pos)]
       ELSE NoSpan

(* json.loads on a token sequence.  A decoded value is                     *)
(*   [t |-> "dict", d |-> ...] | [t |-> "list", elems |-> <<...>>] | [t |-> "num"] *)
Fail == [ok |-> FALSE, val |-> [t |-> "none"], next |-> 0]
Ok(v, n) == [ok |-> TRUE, val |-> v, next |-> n]

RECURSIVE SkipWs(_, _)
SkipWs(s, i) == IF i <= Len(s) /\ s[i] = WS THEN SkipWs(s, i + 1) ELSE i

RECURSIVE SkipNum(_, _)
SkipNum(s, i) == IF i <= Len(s) /\ s[i] = NUM THEN SkipNum(s, i + 1) ELSE i

RECURSIVE ParseValue(_, _)
RECURSIVE ParseElems(_, _, _)

\* the elements after '[' or after ',': acc holds the ones decoded so far
ParseElems(s, i, acc) ==
    LET v == ParseValue(s, SkipWs(s, i))
    IN IF ~v.ok THEN Fail
       ELSE LET j == SkipWs(s, v.next)
            IN IF j > Len(s) THEN Fail
               ELSE IF s[j] = RBR THEN Ok([t |-> "list", elems |-> Append(acc, v.val)], j + 1)
               ELSE IF s[j] = COMMA THEN ParseElems(s, j + 1, Append(acc, v.val))
               ELSE Fail

ParseValue(s, i) ==
    IF i > Len(s) THEN Fail
    ELSE IF s[i].t = "obj" THEN Ok([t |-> "dict", d |-> s[i].d], i + 1)
    ELSE IF s[i] = NUM THEN Ok([t |-> "num"], SkipNum(s, i))
    ELSE IF s[i] = LBR
         THEN LET j == SkipWs(s, i + 1)
              IN IF j <= Len(s) /\ s[j] = RBR THEN Ok([t |-> "list", elems |-> <<>>], j + 1)
                 ELSE ParseElems(s, j, <<>>)
    ELSE Fail

JsonLoads(s) ==
    LET v == ParseValue(s, SkipWs(s, 1))
    IN IF v.ok /\ SkipWs(s, v.next) > Len(s) THEN v ELSE Fail

\* the sentinel records
Row(sku, ty) == [sku |-> sku, product_type_de |-> ty]
EmptyRecord(cid) == Row(<<"ERROR", "_EMPTY_">> \o cid, <<"EmptyContent">>)
NoJsonRecord(cid) == Row(<<"ERROR", "_NO_JSON_">> \o cid, <<"NoJSONFound">>)
InvalidRecord(cid) == Row(<<"ERROR", "_INVALID_">> \o cid, <<"InvalidStructure">>)
ParseErrorRecord(cid) == Row(<<"ERROR", "_PARSE_">> \o cid, <<"ParseError">>)

\* isinstance(item, dict) and "sku" in item and "product_type_de" in item
ValidItem(item) ==
    /\ item.t = "dict"
    /\ "sku" \in DOMAIN item.d
    /\ "product_type_de" \in DOMAIN item.d

\* a slip: break instead of continue, the first invalid element ends the loop
RECURSIVE ValidDataUntilInvalid(_)
ValidDataUntilInvalid(data) ==
    IF data = <<>> THEN <<>>
    ELSE IF ValidItem(Head(data))
         THEN <<Row(Head(data).d.sku, Head(data).d.product_type_de)>> \o ValidDataUntilInvalid(Tail(data))
         ELSE <<>>

\* lines 76-81
RECURSIVE ValidData(_)
ValidData(data) ==
    IF data = <<>> THEN <<>>
    ELSE IF ValidItem(Head(data))
         THEN <<Row(Head(data).d.sku, Head(data).d.product_type_de)>> \o ValidData(Tail(data))
         ELSE ValidData(Tail(data))

\* a slip: an empty valid_data returned as it is, without the sentinel
FromDataNoSentinel(data, cid) ==
    IF data.t = "num" THEN <<ParseErrorRecord(cid)>>
    ELSE ValidData(IF data.t = "dict" THEN <<data>> ELSE data.elems)

\* lines 72-83: the decoded value to the returned records
FromData(data, cid) ==
    IF data.t = "num" THEN <<ParseErrorRecord(cid)>>    \* for item in data: TypeError
    ELSE LET items == IF data.t = "dict" THEN <<data>> ELSE data.elems
             valid_data == ValidData(items)
         IN IF valid_data # <<>> THEN valid_data ELSE <<InvalidRecord(cid)>>

\* a slip: the fallback decode's failure reported as NoJSONFound
FallbackDecodeNoJson(json_str, cid) ==
    LET data == JsonLoads(json_str)
    IN IF data.ok THEN FromData(data.val, cid) ELSE <<NoJsonRecord(cid)>>

\* line 68: data = json.loads(json_str); a JSONDecodeError here reaches line 85
FallbackDecode(json_str, cid) ==
    LET data == JsonLoads(json_str)
    IN IF data.ok THEN FromData(data.val, cid) ELSE <<ParseErrorRecord(cid)>>

ParseResponseContent(c, cid) ==
    LET cleaned_content == CleanResponseContent(c)
        data == JsonLoads(cleaned_content)
        span == ExtractJsonArray(cleaned_content)
    IN IF cleaned_content = <<>> THEN <<EmptyRecord(cid)>>
       ELSE IF data.ok THEN FromData(data.val, cid)
       ELSE IF span.found THEN FallbackDecode(span.json_str, cid)
       ELSE <<NoJsonRecord(cid)>>

CustomIds == {CustomId("0", 0), CustomId("0", 1)}

InitParse ==
    /\ RunIdle
    /\ ReconIdle
    /\ BuildIdle
    /\ StreamIdle
    /\ excel_outputs = <<>>
    /\ content \in SeqsUpTo(Tokens, MaxContentLen)
    /\ custom_id \in CustomIds
    /\ parsed_data = <<>>
    /\ parse_pc = "call"

CallParse ==
    /\ parse_pc = "call"
    /\ parsed_data' = ParseResponseContent(content, custom_id)
    /\ parse_pc' = "returned"
    /\ UNCHANGED <<content, custom_id>>
    /\ UNCHANGED <<build_vars, stream_vars, excel_outputs, recon_vars, run_vars>>

NextParse == CallParse

SpecParse == InitParse /\ [][NextParse]_vars

(***************************************************************************)
(* process_results_to_excel.  A line of the results file is               *)
(*   json_ok       json.loads(line) gives an object                        *)
(*   has_custom_id, custom_id                                              *)
(*   response      "absent" | "null" | "no_body" (an object without body)  *)
(*                 | "body" | "bad_body" (a body without choices[0])       *)
(*                 | "null_content" (message.content is null)              *)
(*   content       the message content (response = "body")                 *)
(*   error         "absent" | "null" | "no_message" | "message"            *)
(***************************************************************************)
ErrorMessage == "Rate limit exceeded"

BodyLine(cid_present, c) ==
    [json_ok |-> TRUE, has_custom_id |-> cid_present, custom_id |-> CustomId("0", 0),
     response |-> "body", content |-> c, error |-> "null"]

NoBodyLine(cid_present, resp, err) ==
    [json_ok |-> TRUE, has_custom_id |-> cid_present, custom_id |-> CustomId("0", 0),
     response |-> resp, content |-> <<>>, error |-> err]

UndecodableLine == [NoLine EXCEPT !.error = "null"]

LinesWith(contents) ==
    {UndecodableLine}
    \cup {BodyLine(p, c) : p \in BOOLEAN, c \in contents}
    \cup {NoBodyLine(p, r, e) : p \in BOOLEAN,
                                r \in {"absent", "null", "no_body", "bad_body", "null_content"},
                                e \in {"absent", "null", "no_message", "message"}}

\* one payload for each way parse_response_content can go
StreamContents ==
    {<<>>,                                      \* empty
     <<FENCE, JSONWORD, FENCE>>,                \* empty once cleaned
     <<LBR, ObjA1, RBR>>,                       \* a well-formed array
     <<ObjA1>>,                                 \* a single object
     <<TXT>>,                                   \* prose, no array
     <<TXT, LBR, ObjA1, RBR>>,                  \* prose before an array
     <<LBR, TXT, RBR>>,                         \* brackets around prose
     <<NUM>>,                                   \* a scalar
     <<LBR, ObjNoType, RBR>>,                   \* no element has both fields
     <<LBR, ObjA1, COMMA, ObjNoType, RBR>>,     \* one element lacks a field
     <<LBR, ObjA2Sentinel, RBR>>}               \* a label that reads like a sentinel

Lines == LinesWith(StreamContents)

\* a slip: the prefix in another case
LineErrorRecordLower(n, e) == Row(<<"Error", "_LINE_", Str(n)>>, <<"LineProcessError: ", e>>)

\* lines 157-160
LineErrorRecord(n, e) == Row(<<"ERROR", "_LINE_", Str(n)>>, <<"LineProcessError: ", e>>)

\* a slip: the custom_id left out of the identifier
ApiErrorRecordNoCid(cid, msg) == Row(<<"ERROR", "_">>, <<"APIError: ", msg>>)

\* lines 150-153
ApiErrorRecord(cid, msg) == Row(<<"ERROR", "_">> \o cid, <<"APIError: ", msg>>)

\* obj.get("custom_id", f"unknown_{line_num}")
CustomIdOf(l, n) == IF l.has_custom_id THEN l.custom_id ELSE <<"unknown_", Str(n)>>

\* lines 149-153: the else branch
ErrorBranch(l, n) ==
    CASE l.error = "null" -> <<LineErrorRecord(n, "AttributeError")>>   \* None.get
      [] l.error = "message" -> <<ApiErrorRecord(CustomIdOf(l, n), ErrorMessage)>>
      [] OTHER -> <<ApiErrorRecord(CustomIdOf(l, n), "Unknown error")>>

\* lines 139-160: the records one line adds
LineRecords(l, n) ==
    IF ~l.json_ok THEN <<LineErrorRecord(n, "JSONDecodeError")>>
    ELSE CASE l.response = "null" -> <<LineErrorRecord(n, "TypeError")>>      \* "body" in None
           [] l.response = "bad_body" -> <<LineErrorRecord(n, "KeyError")>>
           [] l.response = "null_content" -> <<ParseErrorRecord(CustomIdOf(l, n))>> \* None.strip()
           [] l.response = "body" -> ParseResponseContent(l.content, CustomIdOf(l, n))
           [] OTHER -> ErrorBranch(l, n)

\* the whole loop over a results file
RECURSIVE RowsFrom(_, _)
RowsFrom(lines, n) ==
    IF lines = <<>> THEN <<>>
    ELSE LineRecords(Head(lines), n) \o RowsFrom(Tail(lines), n + 1)

ProcessResults(lines) == RowsFrom(lines, 1)

\* product_mapping_chunk_<chunk_id>_<date>_<time>.xlsx holding the rows
ExcelFile(chunk_id, date, rs) == [chunk_id |-> chunk_id, date |-> date, rows |-> rs]

InitStream ==
    /\ RunIdle
    /\ BuildIdle
    /\ ReconIdle
    /\ ParseIdle
    /\ line_num = 0
    /\ line = NoLine
    /\ rows = <<>>
    /\ appended = <<>>
    /\ stream_pc = "lines"
    /\ excel_outputs = <<>>

\* one iteration of the for loop, on the next line of the file
ProcessLine ==
    /\ stream_pc = "lines"
    /\ line_num < MaxLines
    /\ \E l \in Lines :
          /\ line' = l
          /\ appended' = LineRecords(l, line_num + 1)
          /\ rows' = rows \o LineRecords(l, line_num + 1)
    /\ line_num' = line_num + 1
    /\ UNCHANGED <<stream_pc, excel_outputs>>
    /\ UNCHANGED <<build_vars, parse_vars, recon_vars, run_vars>>

\* the end of the file: lines 162-171
WriteExcel ==
    /\ stream_pc = "lines"
    /\ excel_outputs' = Append(excel_outputs, ExcelFile("0", today, rows))
    /\ stream_pc' = "written"
    /\ UNCHANGED <<line_num, line, rows, appended>>
    /\ UNCHANGED <<build_vars, parse_vars, recon_vars, run_vars>>


(***************************************************************************)
(* Reconciler: combine_files.py, cleanup_existing_classifications.py,      *)
(* find_missing_skus.py.  Identifiers are strings on both sides of the     *)
(* spreadsheet round trip, which keeps a string cell as it is.             *)
(***************************************************************************)
\* df['sku'].str.startswith('ERROR', na=False)
StartsWithError(sku) == Len(sku) >= 1 /\ sku[1] = "ERROR"

\* df[~df['sku'].str.startswith('ERROR', na=False)]
RECURSIVE CleanRows(_)
CleanRows(rs) ==
    IF rs = <<>> THEN <<>>
    ELSE IF StartsWithError(Head(rs).sku) THEN CleanRows(Tail(rs))
    ELSE <<Head(rs)>> \o CleanRows(Tail(rs))

SkuSet(rs) == {rs[i].sku : i \in 1..Len(rs)}

\* a slip: keep='last'
RECURSIVE DropDuplicatesLast(_)
DropDuplicatesLast(rs) ==
    IF rs = <<>> THEN <<>>
    ELSE IF Head(rs).sku \in SkuSet(Tail(rs)) THEN DropDuplicatesLast(Tail(rs))
    ELSE <<Head(rs)>> \o DropDuplicatesLast(Tail(rs))

RECURSIVE DropFrom(_, _)
DropFrom(rs, seen) ==
    IF rs = <<>> THEN <<>>
    ELSE IF Head(rs).sku \in seen THEN DropFrom(Tail(rs), seen)
    ELSE <<Head(rs)>> \o DropFrom(Tail(rs), seen \cup {Head(rs).sku})

\* a slip: the drop_duplicates call left out
DropDuplicatesNot(rs) == rs

\* master_df.drop_duplicates(subset=['sku'], keep='first')
DropDuplicates(rs) == DropFrom(rs, {})

\* the date groups of find_latest_processing_files: max(file_groups.keys())
LatestDate == CHOOSE d \in {excel_outputs[i].date : i \in 1..Len(excel_outputs)} :
                  \A i \in 1..Len(excel_outputs) : excel_outputs[i].date <= d

LatestIndexes == {i \in 1..Len(excel_outputs) : excel_outputs[i].date = LatestDate}

\* every order os.listdir can give a set of files: the sort key of line 55 is
\* 0 for every name (parts[2] is "chunk"), so the sort keeps the listing order
Orders(S) == {o \in [1..Cardinality(S) -> S] : \A i, j \in 1..Cardinality(S) : o[i] = o[j] => i = j}

\* lines 98-128: the clean rows of the files that could be read, in order;
\* a file without rows has no sku column and is skipped by the except
RECURSIVE AllData(_)
AllData(files) ==
    IF files = <<>> THEN <<>>
    ELSE IF Head(files).rows = <<>> THEN AllData(Tail(files))
    ELSE <<CleanRows(Head(files).rows)>> \o AllData(Tail(files))

\* combine_latest_files, the operator having answered y
Combine ==
    /\ excel_outputs # <<>>
    /\ \E order \in Orders(LatestIndexes) :
          LET files == [k \in 1..Len(order) |-> excel_outputs[order[k]]]
              all_data == AllData(files)
          IN /\ latest_files' = files
             /\ master' = IF all_data # <<>>
                          THEN [exists |-> TRUE, rows |-> DropDuplicates(Flatten(all_data))]
                          ELSE master
    /\ recon_pc' = "combine"
    /\ UNCHANGED <<original_df, today, missing_skus, remaining_missing_file,
                   missing_products_file, excel_outputs>>
    /\ UNCHANGED <<build_vars, parse_vars, stream_vars, run_vars>>


\* original_skus - processed_skus
MissingSkus(original_skus, processed_skus) == original_skus \ processed_skus

\* original_df[original_df['sku'].astype(str).isin(missing_skus)]
RECURSIVE RowsIn(_, _)
RowsIn(dfr, skus) ==
    IF dfr = <<>> THEN <<>>
    ELSE IF Head(dfr) \in skus THEN <<Head(dfr)>> \o RowsIn(Tail(dfr), skus)
    ELSE RowsIn(Tail(dfr), skus)

Range(sq) == {sq[i] : i \in 1..Len(sq)}

\* find_remaining_missing_products (cleanup_existing_classifications.py)
Cleanup ==
    /\ master.exists
    /\ LET missing == MissingSkus(Range(original_df), SkuSet(master.rows))
       IN /\ missing_skus' = missing
          /\ remaining_missing_file' =
                IF missing = {} THEN remaining_missing_file
                ELSE [exists |-> TRUE, rows |-> RowsIn(original_df, missing)]
    /\ recon_pc' = "cleanup"
    /\ UNCHANGED <<original_df, today, latest_files, master, missing_products_file, excel_outputs>>
    /\ UNCHANGED <<build_vars, parse_vars, stream_vars, run_vars>>

RECURSIVE AllSkus(_)
AllSkus(files) == IF files = <<>> THEN {} ELSE SkuSet(Head(files).rows) \cup AllSkus(Tail(files))

\* find_missing_products (find_missing_skus.py): every output file counts
FindMissing ==
    /\ LET missing == MissingSkus(Range(original_df), AllSkus(excel_outputs))
       IN missing_products_file' =
             IF missing = {} THEN missing_products_file
             ELSE [exists |-> TRUE, rows |-> RowsIn(original_df, missing)]
    /\ recon_pc' = "find_missing"
    /\ UNCHANGED <<original_df, today, latest_files, master, missing_skus,
                   remaining_missing_file, excel_outputs>>
    /\ UNCHANGED <<build_vars, parse_vars, stream_vars, run_vars>>

\* the payloads of the runs the reconciler is checked on
ObjA1v2 == Obj([sku |-> <<"A1">>, product_type_de |-> <<"Bohrer-v2">>])
ObjA2 == Obj([sku |-> <<"A2">>, product_type_de |-> <<"Kupplung">>])
\* an identifier the catalog does not hold
ObjZ9 == Obj([sku |-> <<"Z9">>, product_type_de |-> <<"Bohrer">>])

ReconLines ==
    {BodyLine(TRUE, c) : c \in {<<LBR, ObjA1, RBR>>,
                                <<LBR, ObjA1v2, COMMA, ObjA2, RBR>>,
                                <<LBR, ObjA2, RBR>>,
                                <<LBR, ObjZ9, RBR>>,
                                <<TXT>>}}

Universes == {<<<<"A1">>, <<"A2">>>>, <<<<"A2">>, <<"A1">>>>, <<<<"A1">>>>}

\* a run ends: process_results_to_excel writes the dataset of a one-line results file
RunWritesFile ==
    /\ Len(excel_outputs) < MaxFiles
    /\ \E l \in ReconLines :
          excel_outputs' = Append(excel_outputs, ExcelFile("0", today, ProcessResults(<<l>>)))
    /\ recon_pc' = "run"
    /\ UNCHANGED <<original_df, today, latest_files, master, missing_skus,
                   remaining_missing_file, missing_products_file>>
    /\ UNCHANGED <<build_vars, parse_vars, stream_vars, run_vars>>

\* midnight
NextDay ==
    /\ today < MaxDate
    /\ today' = today + 1
    /\ recon_pc' = "day"
    /\ UNCHANGED <<original_df, latest_files, master, missing_skus,
                   remaining_missing_file, missing_products_file, excel_outputs>>
    /\ UNCHANGED <<build_vars, parse_vars, stream_vars, run_vars>>

InitRecon ==
    /\ RunIdle
    /\ BuildIdle
    /\ ParseIdle
    /\ StreamIdle
    /\ excel_outputs = <<>>
    /\ original_df \in Universes
    /\ today = 1
    /\ latest_files = <<>>
    /\ master = NoFile
    /\ missing_skus = Range(original_df)
    /\ remaining_missing_file = NoFile
    /\ missing_products_file = NoFile
    /\ recon_pc = "none"

\* a results file processed line by line, written, and combined
NextStream == ProcessLine \/ WriteExcel \/ Combine

SpecStream == InitStream /\ [][NextStream]_vars

NextRecon == RunWritesFile \/ NextDay \/ Combine \/ Cleanup \/ FindMissing

SpecRecon == InitRecon /\ [][NextRecon]_vars

(***************************************************************************)
(* Job Orchestrator: main of run_batch_and_export.py, one step per loop    *)
(* iteration, and the batch service, whose jobs end on their own.          *)
(***************************************************************************)
\* the statuses a job ends in; "expired": the completion_window of line 102 ran out
FinalStatuses == {"completed", "failed", "expired"}

\* requests_chunk_<i>.jsonl, sorted: lines 179-180
ChunkFilesUpTo(n) == [i \in 1..n |-> Str(i - 1)]

\* a slip: every job polled in the cycle is removed, whatever its status
RemainingNone(batches, done) == <<>>

\* lines 241-242: del active_batches[batch_id] for every completed batch
RECURSIVE Remaining(_, _)
Remaining(batches, done) ==
    IF batches = <<>> THEN <<>>
    ELSE IF Head(batches).batch_id \in done THEN Remaining(Tail(batches), done)
    ELSE <<Head(batches)>> \o Remaining(Tail(batches), done)

\* lines 93-94: the content of requests_chunk_<chunk_id>.jsonl as uploaded
\* (<<>> where the chunk directory is not modelled)
FileContent(chunk_id) ==
    LET found == {i \in DOMAIN batch_chunks : Str(i) = chunk_id}
    IN IF found = {} THEN <<>> ELSE batch_chunks[CHOOSE i \in found : TRUE]

\* lines 193-201: submit_batch_job returned, the job is tracked
\* what main printed last, and about which batch (0: about none)
Printed(what, batch_id) == [what |-> what, batch_id |-> batch_id]

SubmitChunk ==
    /\ run_pc = "submit"
    /\ submit_idx <= Len(chunk_files)
    /\ remote' = Append(remote, [status |-> "in_progress", output |-> FALSE,
                                 input |-> chunk_files[submit_idx],
                                 requests |-> FileContent(chunk_files[submit_idx])])
    /\ active_batches' = Append(active_batches,
                                [batch_id |-> Len(remote) + 1, chunk_id |-> chunk_files[submit_idx]])
    /\ submit_idx' = submit_idx + 1
    /\ UNCHANGED <<chunk_files, completed_batches, completed_chunks, poll_idx, downloads, run_pc>>
    /\ printed' = Printed("Submitted chunk", Len(remote) + 1)
    /\ UNCHANGED <<build_vars, parse_vars, stream_vars, excel_outputs, recon_vars>>

\* a slip: the exception ends the submission loop
SubmitRaisesStops ==
    /\ run_pc = "submit"
    /\ submit_idx <= Len(chunk_files)
    /\ submit_idx' = Len(chunk_files) + 1
    /\ UNCHANGED <<chunk_files, active_batches, completed_batches, completed_chunks,
                   poll_idx, remote, downloads, run_pc>>
    /\ printed' = Printed("Error submitting", 0)
    /\ UNCHANGED <<build_vars, parse_vars, stream_vars, excel_outputs, recon_vars>>

\* lines 203-204: the upload or the job creation raised
SubmitRaises ==
    /\ run_pc = "submit"
    /\ submit_idx <= Len(chunk_files)
    /\ submit_idx' = submit_idx + 1
    /\ UNCHANGED <<chunk_files, active_batches, completed_batches, completed_chunks,
                   poll_idx, remote, downloads, run_pc>>
    /\ printed' = Printed("Error submitting", 0)
    /\ UNCHANGED <<build_vars, parse_vars, stream_vars, excel_outputs, recon_vars>>

\* lines 182-184 and 206-213: the submission loop is over, the while test
StartMonitoring ==
    /\ run_pc = "submit"
    /\ submit_idx > Len(chunk_files)
    /\ IF active_batches = <<>>
       THEN /\ run_pc' = "done"
            /\ UNCHANGED <<completed_batches, poll_idx>>
       ELSE /\ run_pc' = "poll"
            /\ completed_batches' = <<>>
            /\ poll_idx' = 1
    /\ UNCHANGED <<chunk_files, submit_idx, active_batches, completed_chunks, remote, downloads>>
    /\ printed' = IF chunk_files = <<>> THEN Printed("No .jsonl files found", 0)
                  ELSE IF active_batches = <<>> THEN Printed("Processing complete!", 0)
                  ELSE Printed("Checking status", 0)
    /\ UNCHANGED <<build_vars, parse_vars, stream_vars, excel_outputs, recon_vars>>

Polling == run_pc = "poll" /\ poll_idx <= Len(active_batches)

CurrentBatch == active_batches[poll_idx]

\* a slip: the job whose check raised is marked for removal
CheckRaisesDropsJob ==
    /\ Polling
    /\ poll_idx' = poll_idx + 1
    /\ completed_batches' = Append(completed_batches, CurrentBatch.batch_id)
    /\ UNCHANGED <<chunk_files, submit_idx, active_batches,
                   completed_chunks, remote, downloads, run_pc>>
    /\ printed' = Printed("Error checking batch", CurrentBatch.batch_id)
    /\ UNCHANGED <<build_vars, parse_vars, stream_vars, excel_outputs, recon_vars>>

\* lines 244-245: check_batch_status raised
CheckRaises ==
    /\ Polling
    /\ poll_idx' = poll_idx + 1
    /\ UNCHANGED <<chunk_files, submit_idx, active_batches, completed_batches,
                   completed_chunks, remote, downloads, run_pc>>
    /\ printed' = Printed("Error checking batch", CurrentBatch.batch_id)
    /\ UNCHANGED <<build_vars, parse_vars, stream_vars, excel_outputs, recon_vars>>

\* lines 217-219, no branch taken: the status is neither completed nor failed
CheckOther ==
    /\ Polling
    /\ remote[CurrentBatch.batch_id].status \notin {"completed", "failed"}
    /\ poll_idx' = poll_idx + 1
    /\ UNCHANGED <<chunk_files, submit_idx, active_batches, completed_batches,
                   completed_chunks, remote, downloads, run_pc>>
    /\ printed' = Printed(remote[CurrentBatch.batch_id].status, CurrentBatch.batch_id)
    /\ UNCHANGED <<build_vars, parse_vars, stream_vars, excel_outputs, recon_vars>>

\* a slip: a failed job gets an empty dataset
CheckFailedWritesDataset ==
    /\ Polling
    /\ remote[CurrentBatch.batch_id].status = "failed"
    /\ completed_batches' = Append(completed_batches, CurrentBatch.batch_id)
    /\ poll_idx' = poll_idx + 1
    /\ UNCHANGED <<chunk_files, submit_idx, active_batches, completed_chunks,
                   remote, downloads, run_pc>>
    /\ printed' = Printed("failed", CurrentBatch.batch_id)
    /\ excel_outputs' = Append(excel_outputs, ExcelFile(CurrentBatch.chunk_id, today, <<>>))
    /\ UNCHANGED <<build_vars, parse_vars, stream_vars, recon_vars>>

\* lines 234-236
CheckFailed ==
    /\ Polling
    /\ remote[CurrentBatch.batch_id].status = "failed"
    /\ completed_batches' = Append(completed_batches, CurrentBatch.batch_id)
    /\ poll_idx' = poll_idx + 1
    /\ UNCHANGED <<chunk_files, submit_idx, active_batches, completed_chunks,
                   remote, downloads, run_pc>>
    /\ printed' = Printed("failed", CurrentBatch.batch_id)
    /\ UNCHANGED <<build_vars, parse_vars, stream_vars, excel_outputs, recon_vars>>

\* a slip: a completed job without output file gets an empty dataset
CheckCompletedEmptyDataset ==
    /\ Polling
    /\ remote[CurrentBatch.batch_id].status = "completed"
    /\ completed_batches' = Append(completed_batches, CurrentBatch.batch_id)
    /\ \/ /\ ~remote[CurrentBatch.batch_id].output
          /\ printed' = Printed("Completed chunk", CurrentBatch.batch_id)
          /\ excel_outputs' = Append(excel_outputs, ExcelFile(CurrentBatch.chunk_id, today, <<>>))
          /\ completed_chunks' = Append(completed_chunks,
                                        [chunk_id |-> CurrentBatch.chunk_id,
                                         batch_id |-> CurrentBatch.batch_id,
                                         row_count |-> 0])
          /\ UNCHANGED downloads
       \/ /\ remote[CurrentBatch.batch_id].output
          /\ printed' = Printed("Error processing results", CurrentBatch.batch_id)
          /\ UNCHANGED <<downloads, excel_outputs, completed_chunks>>
       \/ /\ remote[CurrentBatch.batch_id].output
          /\ printed' = Printed("Error processing results", CurrentBatch.batch_id)
          /\ downloads' = Append(downloads, CurrentBatch.batch_id)
          /\ UNCHANGED <<excel_outputs, completed_chunks>>
       \/ /\ remote[CurrentBatch.batch_id].output
          /\ printed' = Printed("Completed chunk", CurrentBatch.batch_id)
          /\ downloads' = Append(downloads, CurrentBatch.batch_id)
          /\ \E l \in ReconLines :
                LET rs == ProcessResults(<<l>>)
                IN /\ excel_outputs' = Append(excel_outputs,
                                              ExcelFile(CurrentBatch.chunk_id, today, rs))
                   /\ completed_chunks' = Append(completed_chunks,
                                                 [chunk_id |-> CurrentBatch.chunk_id,
                                                  batch_id |-> CurrentBatch.batch_id,
                                                  row_count |-> Len(rs)])
    /\ poll_idx' = poll_idx + 1
    /\ UNCHANGED <<chunk_files, submit_idx, active_batches, remote, run_pc>>
    /\ UNCHANGED <<build_vars, parse_vars, stream_vars, recon_vars>>

\* lines 220-232: the job is marked, then its output downloaded and processed;
\* download_batch_results raises without an output file (line 115-116), and
\* the download or the processing may raise
CheckCompleted ==
    /\ Polling
    /\ remote[CurrentBatch.batch_id].status = "completed"
    /\ completed_batches' = Append(completed_batches, CurrentBatch.batch_id)
    /\ \/ /\ ~remote[CurrentBatch.batch_id].output
          /\ printed' = Printed("Error processing results", CurrentBatch.batch_id)
          /\ UNCHANGED <<downloads, excel_outputs, completed_chunks>>
       \/ /\ remote[CurrentBatch.batch_id].output
          /\ printed' = Printed("Error processing results", CurrentBatch.batch_id)
          /\ UNCHANGED <<downloads, excel_outputs, completed_chunks>>
       \/ /\ remote[CurrentBatch.batch_id].output
          /\ printed' = Printed("Error processing results", CurrentBatch.batch_id)
          /\ downloads' = Append(downloads, CurrentBatch.batch_id)
          /\ UNCHANGED <<excel_outputs, completed_chunks>>
       \/ /\ remote[CurrentBatch.batch_id].output
          /\ printed' = Printed("Completed chunk", CurrentBatch.batch_id)
          /\ downloads' = Append(downloads, CurrentBatch.batch_id)
          /\ \E l \in ReconLines :
                LET rs == ProcessResults(<<l>>)
                IN /\ excel_outputs' = Append(excel_outputs,
                                              ExcelFile(CurrentBatch.chunk_id, today, rs))
                   /\ completed_chunks' = Append(completed_chunks,
                                                 [chunk_id |-> CurrentBatch.chunk_id,
                                                  batch_id |-> CurrentBatch.batch_id,
                                                  row_count |-> Len(rs)])
    /\ poll_idx' = poll_idx + 1
    /\ UNCHANGED <<chunk_files, submit_idx, active_batches, remote, run_pc>>
    /\ UNCHANGED <<build_vars, parse_vars, stream_vars, recon_vars>>

\* lines 240-246: the for loop is over; removal, then the while test, the
\* sleep and the start of the next cycle
EndCycle ==
    /\ run_pc = "poll"
    /\ poll_idx > Len(active_batches)
    /\ LET rest == Remaining(active_batches, {completed_batches[i] : i \in 1..Len(completed_batches)})
       IN /\ active_batches' = rest
          /\ IF rest = <<>>
             THEN /\ run_pc' = "done"
                  /\ UNCHANGED <<completed_batches, poll_idx>>
             ELSE /\ run_pc' = "poll"
                  /\ completed_batches' = <<>>
                  /\ poll_idx' = 1
    /\ UNCHANGED <<chunk_files, submit_idx, completed_chunks, remote, downloads>>
    /\ printed' = IF active_batches' = <<>> THEN Printed("Processing complete!", 0)
                  ELSE Printed("Checking status", 0)
    /\ UNCHANGED <<build_vars, parse_vars, stream_vars, excel_outputs, recon_vars>>

\* the service ends job k: completed (with or without an output file), failed
\* or expired
RemoteEnds(k) ==
    /\ k \in 1..Len(remote)
    /\ remote[k].status = "in_progress"
    /\ \E s \in FinalStatuses : \E o \in BOOLEAN :
          /\ o => s = "completed"
          /\ remote' = [remote EXCEPT ![k].status = s, ![k].output = o]
    /\ UNCHANGED <<chunk_files, submit_idx, active_batches, completed_batches,
                   completed_chunks, poll_idx, downloads, run_pc>>
    /\ UNCHANGED printed
    /\ UNCHANGED <<build_vars, parse_vars, stream_vars, excel_outputs, recon_vars>>

RemoteStep == \E k \in 1..MaxChunkFiles : RemoteEnds(k)

InitRun ==
    /\ BuildIdle
    /\ ParseIdle
    /\ StreamIdle
    /\ ReconIdle
    /\ excel_outputs = <<>>
    /\ chunk_files \in {ChunkFilesUpTo(n) : n \in 0..MaxChunkFiles}
    /\ submit_idx = 1
    /\ active_batches = <<>>
    /\ completed_batches = <<>>
    /\ completed_chunks = <<>>
    /\ poll_idx = 1
    /\ remote = <<>>
    /\ downloads = <<>>
    /\ printed = Printed("", 0)
    /\ run_pc = "submit"

NextRun ==
    \/ SubmitChunk \/ SubmitRaises \/ StartMonitoring
    \/ CheckRaises \/ CheckOther \/ CheckFailed \/ CheckCompleted
    \/ EndCycle \/ RemoteStep

SpecRun == InitRun /\ [][NextRun]_vars

\* the status of job k came back: the check did not raise
CheckAnswered(k) ==
    /\ Polling
    /\ CurrentBatch.batch_id = k
    /\ (CheckOther \/ CheckFailed \/ CheckCompleted)

\* the program runs on (the loops of main always take their next step), every
\* job ends at the service, and the status check of a job that is checked
\* again and again does not raise forever
FairSpecRun ==
    /\ SpecRun
    /\ WF_vars(SubmitChunk \/ SubmitRaises)
    /\ WF_vars(StartMonitoring)
    /\ WF_vars(CheckRaises \/ CheckOther \/ CheckFailed \/ CheckCompleted)
    /\ WF_vars(EndCycle)
    /\ \A k \in 1..MaxChunkFiles : WF_vars(RemoteEnds(k))
    /\ \A k \in 1..MaxChunkFiles : SF_vars(CheckAnswered(k))

(***************************************************************************)
(* A run over the chunks of the catalog, one item per chunk, followed by   *)
(* reconciliation at any moment.                                           *)
(***************************************************************************)
\* the identifiers of the sub-batches of requests_chunk_<chunk_id>.jsonl
ChunkSkus(chunk_id) ==
    {original_df[i] : i \in {k \in 1..Len(original_df) : Str(k - 1) = chunk_id}}

InitRunRecon ==
    /\ BuildIdle
    /\ ParseIdle
    /\ StreamIdle
    /\ excel_outputs = <<>>
    /\ original_df \in Universes
    /\ today = 1
    /\ latest_files = <<>>
    /\ master = NoFile
    /\ missing_skus = Range(original_df)
    /\ remaining_missing_file = NoFile
    /\ missing_products_file = NoFile
    /\ recon_pc = "none"
    /\ chunk_files = ChunkFilesUpTo(Len(original_df))
    /\ submit_idx = 1
    /\ active_batches = <<>>
    /\ completed_batches = <<>>
    /\ completed_chunks = <<>>
    /\ poll_idx = 1
    /\ remote = <<>>
    /\ downloads = <<>>
    /\ printed = Printed("", 0)
    /\ run_pc = "submit"

NextRunRecon == NextRun \/ Combine \/ Cleanup

SpecRunRecon == InitRunRecon /\ [][NextRunRecon]_vars

(***************************************************************************)
(* Build and run invocations, one after the other, over the same chunk     *)
(* directory and the same service, with one item per chunk and per         *)
(* sub-batch.                                                              *)
(***************************************************************************)
\* sorted(os.listdir(BATCH_CHUNKS_DIR)), as chunk ids: lines 179-180 and 194
RECURSIVE SortedChunkIds(_)
SortedChunkIds(S) ==
    IF S = {} THEN <<>>
    ELSE LET first == CHOOSE x \in S : \A y \in S : x <= y
         IN <<Str(first)>> \o SortedChunkIds(S \ {first})

\* what INPUT_EXCEL may hold: the rows of a catalog that are in a residual
BuildInputs == {RowsIn(u, m) : u \in Universes, m \in SUBSET {<<"A1">>, <<"A2">>}}

\* build_requests_jsonl.py, main, lines 140-149: the directory is created if
\* missing and otherwise left as it is, the input is loaded
StartBuild ==
    /\ build_pc = "done"
    /\ run_pc \in {"idle", "done"}
    /\ df' \in BuildInputs
    /\ chunk_idx' = 0
    /\ build_pc' = "loop"
    /\ UNCHANGED <<batch_size, chunk_size, batch_chunks>>
    /\ UNCHANGED <<parse_vars, stream_vars, excel_outputs, recon_vars, run_vars>>

\* run_batch_and_export.py, main, lines 173-190: every .jsonl file of the
\* directory is listed
StartRun ==
    /\ build_pc = "done"
    /\ run_pc \in {"idle", "done"}
    /\ Len(remote) + Cardinality(DOMAIN batch_chunks) <= MaxJobs
    /\ chunk_files' = SortedChunkIds(DOMAIN batch_chunks)
    /\ submit_idx' = 1
    /\ active_batches' = <<>>
    /\ completed_batches' = <<>>
    /\ completed_chunks' = <<>>
    /\ poll_idx' = 1
    /\ printed' = Printed("Found chunk files", 0)
    /\ run_pc' = "submit"
    /\ UNCHANGED <<remote, downloads>>
    /\ UNCHANGED <<build_vars, parse_vars, stream_vars, excel_outputs, recon_vars>>

RemoteStepAll == \E k \in 1..MaxJobs : RemoteEnds(k)

InitBuildRun ==
    /\ RunIdle
    /\ ReconIdle
    /\ ParseIdle
    /\ StreamIdle
    /\ excel_outputs = <<>>
    /\ BuildIdle

NextBuildRun ==
    \/ StartBuild \/ WriteChunk \/ BuildDone
    \/ StartRun
    \/ SubmitChunk \/ SubmitRaises \/ StartMonitoring
    \/ CheckRaises \/ CheckOther \/ CheckFailed \/ CheckCompleted
    \/ EndCycle \/ RemoteStepAll

SpecBuildRun == InitBuildRun /\ [][NextBuildRun]_vars

(***************************************************************************)
(* C1                                                                      *)
(***************************************************************************)
\* every sub-batch of every chunk file, in (chunk index, batch index) order
AllSubBatches ==
    Flatten([c \in 1..Cardinality(DOMAIN batch_chunks) |->
                [b \in 1..Len(batch_chunks[c - 1]) |-> batch_chunks[c - 1][b].items]])

\* C1: when the build has finished, the chunk files are exactly chunks
\* 0..ceil(n/CHUNK_SIZE)-1, item k of sub-batch b of chunk c is input item
\* c*CHUNK_SIZE + b*BATCH_SIZE + k, every position of the input lies in exactly
\* the sub-batch its position selects, the concatenation of all sub-batches in
\* (chunk, batch) order is the input, and an empty input gives no chunk.
C1_PositionalPartition ==
    build_pc = "done" =>
        LET n == Len(df) IN
        /\ DOMAIN batch_chunks = 0..(Ceil(n, chunk_size) - 1)
        /\ (n = 0 => batch_chunks = EmptyDir)
        /\ \A c \in DOMAIN batch_chunks :
              LET lo == c * chunk_size
                  hi == Min((c + 1) * chunk_size, n)
                  reqs == batch_chunks[c]
              IN /\ Len(reqs) = Ceil(hi - lo, batch_size)
                 /\ \A b \in 1..Len(reqs) :
                       LET blo == lo + (b - 1) * batch_size
                           bhi == Min(blo + batch_size, hi)
                       IN /\ Len(reqs[b].items) = bhi - blo
                          /\ \A k \in 1..(bhi - blo) : reqs[b].items[k] = df[blo + k]
        /\ Flatten(AllSubBatches) = df

\* a finished build with a trailing partial sub-batch and a trailing partial chunk
C1_Witness ==
    /\ build_pc = "done"
    /\ Len(df) = 4
    /\ chunk_size = 3
    /\ batch_size = 2
    /\ Cardinality(DOMAIN batch_chunks) = 2
    /\ Len(batch_chunks[0]) = 2
    /\ Len(batch_chunks[0][2].items) = 1
    /\ Len(batch_chunks[1]) = 1
(***************************************************************************)
(* C2                                                                      *)
(***************************************************************************)
\* C2: every response record of the stream, whatever it holds, adds at least
\* one record: the records the current line added are non-empty and are the
\* tail of the collected rows, the rows number at least the lines read, and
\* the written dataset holds all of them.
C2_EveryRecordYieldsARow ==
    /\ line_num >= 1 =>
          /\ Len(appended) >= 1
          /\ Len(rows) >= Len(appended)
          /\ SubSeq(rows, Len(rows) - Len(appended) + 1, Len(rows)) = appended
    /\ Len(rows) >= line_num
    /\ (stream_pc = "written" /\ excel_outputs # <<>>) =>
          Len(excel_outputs[Len(excel_outputs)].rows) >= line_num

\* the second line's payload decodes to an array none of whose elements is valid
C2_Witness ==
    /\ stream_pc = "written"
    /\ line_num = 2
    /\ line.json_ok /\ line.response = "body"
    /\ line.content = <<LBR, ObjNoType, RBR>>
    /\ Len(appended) = 1
    /\ Len(excel_outputs[1].rows) >= 2

(***************************************************************************)
(* C3                                                                      *)
(***************************************************************************)
MasterSkus == SkuSet(master.rows)
Universe == Range(original_df)

\* C3 as claimed: after find_remaining_missing_products, the residual and the
\* identifiers of the master are disjoint and their union is exactly the universe.
C3_AsClaimed ==
    recon_pc = "cleanup" =>
        /\ missing_skus \cap MasterSkus = {}
        /\ missing_skus \cup MasterSkus = Universe

(***************************************************************************)
(* C4                                                                      *)
(***************************************************************************)
\* C4: after combine_latest_files, every identifier with a record that is not
\* an error record in any output file written so far, whatever its date, has a
\* record in the master.
C4_AllRunsInMaster ==
    recon_pc = "combine" =>
        \A i \in 1..Len(excel_outputs) : \A j \in 1..Len(excel_outputs[i].rows) :
            LET sku == excel_outputs[i].rows[j].sku
            IN sku[1] # "ERROR" => sku \in MasterSkus

(***************************************************************************)
(* C5                                                                      *)
(***************************************************************************)
\* the position (file, row) comes before (file2, row2) in the order of reading
Before(k, j, k2, j2) == k < k2 \/ (k = k2 /\ j < j2)

SentinelLabels == {"EmptyContent", "NoJSONFound", "InvalidStructure", "ParseError",
                   "APIError: ", "LineProcessError: "}

\* the record is an object of the line's payload that has both fields
FromPayload(r, l) ==
    /\ l.json_ok /\ l.response = "body"
    /\ \E i \in 1..Len(l.content) :
          /\ l.content[i].t = "obj"
          /\ {"sku", "product_type_de"} \subseteq DOMAIN l.content[i].d
          /\ r = [sku |-> l.content[i].d.sku, product_type_de |-> l.content[i].d.product_type_de]

\* C6 as claimed: every record of the master has an identifier that does not
\* start with ERROR and a label that is not a sentinel label.
C6_AsClaimed ==
    (recon_pc = "combine" /\ master.exists) =>
        \A a \in 1..Len(master.rows) :
            /\ master.rows[a].sku[1] # "ERROR"
            /\ master.rows[a].product_type_de[1] \notin SentinelLabels

\* C6 amended: every record a line adds that is not an object of its payload
\* (every sentinel) has an identifier starting with ERROR and a sentinel
\* label, and no record of the master has an identifier starting with ERROR:
\* no sentinel enters the master.  A record the model itself returned under
\* an ordinary identifier stays, whatever its label.
C6_Amended ==
    /\ \A i \in 1..Len(appended) :
          FromPayload(appended[i], line) \/
             (/\ appended[i].sku[1] = "ERROR"
              /\ appended[i].product_type_de[1] \in SentinelLabels)
    /\ (recon_pc = "combine" /\ master.exists) =>
          \A a \in 1..Len(master.rows) :
              /\ master.rows[a].sku[1] # "ERROR"
              /\ \E j \in 1..Len(rows) : rows[j] = master.rows[a]

\* an undecodable line and a well-formed one: the file holds a sentinel and a
\* clean record, the master only the clean one
C6_Witness ==
    /\ recon_pc = "combine"
    /\ Len(rows) = 2
    /\ rows[1].sku = <<"ERROR", "_LINE_", "1">>
    /\ rows[2] = Row(<<"A1">>, <<"Bohrer">>)
    /\ master.rows = <<rows[2]>>

(***************************************************************************)
(* C7                                                                      *)
(***************************************************************************)
\* C7: under fair scheduling, every job ending at the service and status
\* checks that eventually succeed, the poll loop eventually terminates with
\* no outstanding job.
C7_PollLoopTerminates == <>(run_pc = "done" /\ active_batches = <<>>)

(***************************************************************************)
(* C8                                                                      *)
(***************************************************************************)
\* C8: the residual never gains an identifier: each reconciliation leaves it
\* as it was or smaller.
C8_ResidualNeverGains == [][missing_skus' \subseteq missing_skus]_vars

(***************************************************************************)
(* C9                                                                      *)
(***************************************************************************)
NoJsonLiteral == Row(<<"ERROR", "_NO_JSON_">> \o custom_id, <<"NoJSONFound">>)
EmptyLiteral == Row(<<"ERROR", "_EMPTY_">> \o custom_id, <<"EmptyContent">>)
ParseErrorLiteral == Row(<<"ERROR", "_PARSE_">> \o custom_id, <<"ParseError">>)

StrictFails == CleanResponseContent(content) # <<>> /\ ~JsonLoads(CleanResponseContent(content)).ok
SpanOf == ExtractJsonArray(CleanResponseContent(content))

\* C9 as claimed: a payload that is non-empty once cleaned, whose strict decode
\* fails and whose span from the first '[' to the last ']' is missing or fails
\* to decode, gives exactly the record ERROR_NO_JSON_<custom_id> / NoJSONFound;
\* a payload empty once cleaned gives exactly ERROR_EMPTY_<custom_id> / EmptyContent.
C9_AsClaimed ==
    parse_pc = "returned" =>
        /\ (StrictFails /\ (~SpanOf.found \/ ~JsonLoads(SpanOf.json_str).ok)) =>
              parsed_data = <<NoJsonLiteral>>
        /\ CleanResponseContent(content) = <<>> => parsed_data = <<EmptyLiteral>>

\* C9 amended: the record is ERROR_NO_JSON_<custom_id> / NoJSONFound when no
\* span from a '[' to a later ']' exists; when the span exists and its decode
\* fails, the record is ERROR_PARSE_<custom_id> / ParseError; the empty case
\* is as claimed.  Exactly one record in each case.
C9_Amended ==
    parse_pc = "returned" =>
        LET strict_fails == StrictFails
            span == SpanOf
        IN /\ (strict_fails /\ ~span.found) => parsed_data = <<NoJsonLiteral>>
           /\ (strict_fails /\ span.found /\ ~JsonLoads(span.json_str).ok) =>
                 parsed_data = <<ParseErrorLiteral>>
           /\ CleanResponseContent(content) = <<>> => parsed_data = <<EmptyLiteral>>

\* a fenced payload whose brackets hold prose: both decodes fail, the span exists
C9_Witness ==
    /\ parse_pc = "returned"
    /\ content = <<FENCE, LBR, TXT, RBR, FENCE>>
    /\ StrictFails /\ SpanOf.found /\ ~JsonLoads(SpanOf.json_str).ok
    /\ parsed_data = <<ParseErrorLiteral>>

(***************************************************************************)
(* C10                                                                     *)
(***************************************************************************)
\* C10: a response record without a response body (the response field absent,
\* null or an object without body) that carries an error object with a message
\* adds exactly the record ERROR_<custom_id> / "APIError: <message>".
C10_ApiErrorRecord ==
    (/\ line_num >= 1
     /\ line.json_ok
     /\ line.has_custom_id
     /\ line.response \in {"absent", "null", "no_body"}
     /\ line.error = "message") =>
        appended = <<Row(<<"ERROR", "_">> \o line.custom_id, <<"APIError: ", ErrorMessage>>)>>

(***************************************************************************)
(* C11                                                                     *)
(***************************************************************************)
\* the identifier holds the tokens of cid, in a row
ContainsCid(sku, cid) ==
    \E k \in 1..Len(sku) :
        k + Len(cid) - 1 <= Len(sku) /\ SubSeq(sku, k, k + Len(cid) - 1) = cid

\* the records of the current line that are not objects of its payload
SentinelIndexes == {i \in 1..Len(appended) : ~FromPayload(appended[i], line)}

\* handling the line raised inside process_results_to_excel
LineRaises ==
    \/ ~line.json_ok
    \/ line.response \in {"null", "bad_body"}
    \/ (line.response \in {"absent", "no_body"} /\ line.error = "null")

\* every line read so far added its records and the loop went on
NoLineStopsTheStream ==
    /\ Len(rows) >= line_num
    /\ line_num >= 1 =>
          /\ appended # <<>>
          /\ Len(rows) >= Len(appended)
          /\ SubSeq(rows, Len(rows) - Len(appended) + 1, Len(rows)) = appended

Decoded ==
    LET cleaned_content == CleanResponseContent(content)
        data == JsonLoads(cleaned_content)
        span == ExtractJsonArray(cleaned_content)
    IN IF cleaned_content = <<>> THEN Fail
       ELSE IF data.ok THEN data
       ELSE IF span.found THEN JsonLoads(span.json_str)
       ELSE Fail

\* C12: when the payload decodes to an array or a single object, the records
\* returned are the elements having both fields, in their order, one record
\* per such element; if there is none, the one record ERROR_INVALID_<custom_id>
\* / InvalidStructure is returned, and only then.
C12_ValidElementsInOrder ==
    parse_pc = "returned" =>
        LET decoded == Decoded
            items == IF decoded.val.t = "dict" THEN <<decoded.val>> ELSE decoded.val.elems
            survivors == {i \in 1..Len(items) :
                             /\ items[i].t = "dict"
                             /\ {"sku", "product_type_de"} \subseteq DOMAIN items[i].d}
        IN (decoded.ok /\ decoded.val.t \in {"list", "dict"}) =>
              IF survivors = {}
              THEN parsed_data = <<Row(<<"ERROR", "_INVALID_">> \o custom_id, <<"InvalidStructure">>)>>
              ELSE /\ Len(parsed_data) = Cardinality(survivors)
                   /\ \A k \in 1..Len(parsed_data) :
                         /\ parsed_data[k].product_type_de # <<"InvalidStructure">>
                         /\ \E i \in survivors :
                               /\ Cardinality({j \in survivors : j <= i}) = k
                               /\ parsed_data[k] = [sku |-> items[i].d.sku,
                                                    product_type_de |-> items[i].d.product_type_de]

\* an element without label before a complete one: only the second is returned
C12_Witness ==
    /\ parse_pc = "returned"
    /\ content = <<LBR, ObjNoType, COMMA, ObjA1, RBR>>
    /\ parsed_data = <<Row(<<"A1">>, <<"Bohrer">>)>>

(***************************************************************************)
(* C13                                                                     *)
(***************************************************************************)
\* the step of the for loop in which check_batch_status raised
FailedCheckStep ==
    /\ Polling
    /\ poll_idx' = poll_idx + 1
    /\ printed' = Printed("Error checking batch", CurrentBatch.batch_id)

\* the last thing main printed is that the check of job b raised
JustFailed(b) == run_pc = "poll" /\ printed = Printed("Error checking batch", b)

\* the for loop is at job b
BeingChecked(b) == Polling /\ CurrentBatch.batch_id = b

\* C13: a status check that raises leaves the job outstanding and unmarked,
\* writes no dataset and no completed-chunks entry, and the for loop goes on
\* to the next job of the cycle; the job is checked again later.
C13_FailedCheckKeepsJob ==
    /\ [][FailedCheckStep =>
             /\ active_batches' = active_batches
             /\ completed_batches' = completed_batches
             /\ excel_outputs' = excel_outputs
             /\ completed_chunks' = completed_chunks
             /\ downloads' = downloads
             /\ run_pc' = "poll"
             /\ active_batches'[poll_idx' - 1] = CurrentBatch]_vars
    /\ \A b \in 1..MaxChunkFiles : JustFailed(b) ~> BeingChecked(b)

\* the check of the first of two outstanding jobs raised, the second is next
C13_Witness ==
    /\ JustFailed(1)
    /\ Len(active_batches) = 2
    /\ active_batches[1].batch_id = 1
    /\ BeingChecked(2)

(***************************************************************************)
(* C14                                                                     *)
(***************************************************************************)
\* one iteration of the submission loop
SubmissionStep == run_pc = "submit" /\ submit_idx <= Len(chunk_files) /\ submit_idx' # submit_idx

\* the chunk ids of the outstanding jobs, in order
OutstandingChunks == [i \in 1..Len(active_batches) |-> active_batches[i].chunk_id]

\* C14: the submission loop takes the chunks one by one, whatever the outcome
\* of the others: a submission that succeeds adds exactly one entry, for that
\* chunk and under a new batch id, one that raises adds none and the loop
\* goes on; monitoring starts only after the last chunk, so that the
\* outstanding jobs are then one per submitted chunk and none for a chunk
\* whose submission raised.
C14_EveryChunkSubmittedOnce ==
    /\ [][SubmissionStep =>
             /\ submit_idx' = submit_idx + 1
             /\ run_pc' = "submit"
             /\ \/ /\ printed'.what = "Submitted chunk"
                   /\ \A i \in 1..Len(active_batches) :
                         active_batches[i].batch_id # printed'.batch_id
                   /\ active_batches' = Append(active_batches,
                                               [batch_id |-> printed'.batch_id,
                                                chunk_id |-> chunk_files[submit_idx]])
                \/ /\ printed'.what = "Error submitting"
                   /\ active_batches' = active_batches]_vars
    /\ [][(run_pc = "submit" /\ run_pc' # "submit") =>
             /\ submit_idx = Len(chunk_files) + 1
             /\ active_batches' = active_batches]_vars
    /\ [](run_pc = "submit" =>
             /\ Len(active_batches) <= submit_idx - 1
             /\ \A i, j \in 1..Len(active_batches) :
                   OutstandingChunks[i] = OutstandingChunks[j] => i = j
             /\ \A i \in 1..Len(active_batches) :
                   \E k \in 1..(submit_idx - 1) : chunk_files[k] = OutstandingChunks[i])

\* the submission of chunk 0 raised, chunk 1 was submitted; monitoring starts
C14_Witness ==
    /\ run_pc = "poll"
    /\ printed = Printed("Checking status", 0)
    /\ Len(chunk_files) = 2
    /\ poll_idx = 1
    /\ OutstandingChunks = <<"1">>

(***************************************************************************)
(* C15                                                                     *)
(***************************************************************************)
\* the jobs the service completed without an output file
NoOutputJobs == {b \in 1..Len(remote) : remote[b].status = "completed" /\ ~remote[b].output}

\* the step of the for loop in which such a job was found completed
MissingOutputStep ==
    /\ Polling
    /\ CurrentBatch.batch_id \in NoOutputJobs
    /\ poll_idx' = poll_idx + 1
    /\ printed'.what # "Error checking batch"

\* the step after the for loop: removal, then the next cycle or the end
CycleEndStep ==
    /\ run_pc = "poll"
    /\ poll_idx > Len(active_batches)
    /\ (poll_idx' = 1 \/ run_pc' = "done")

\* some dataset written so far has a clean record for the identifier
ClassifiedSomewhere(sku) ==
    \E i \in 1..Len(excel_outputs) : \E j \in 1..Len(excel_outputs[i].rows) :
        excel_outputs[i].rows[j].sku = sku

\* C15: a job found completed without output file is marked for removal and
\* leaves the outstanding set at the end of the cycle; nothing is downloaded,
\* no dataset is written and no completed-chunks entry is made for its chunk;
\* the for loop goes on to the next job; after a reconciliation every catalog
\* identifier of its chunk is in the residual unless a dataset written for
\* another job holds a record for it.
C15_MissingOutputIsFailure ==
    /\ [][MissingOutputStep =>
             /\ completed_batches' = Append(completed_batches, CurrentBatch.batch_id)
             /\ printed' = Printed("Error processing results", CurrentBatch.batch_id)
             /\ excel_outputs' = excel_outputs
             /\ completed_chunks' = completed_chunks
             /\ downloads' = downloads
             /\ run_pc' = "poll"]_vars
    /\ [][CycleEndStep =>
             \A i \in 1..Len(completed_batches) : \A j \in 1..Len(active_batches') :
                 active_batches'[j].batch_id # completed_batches[i]]_vars
    /\ [](\A b \in NoOutputJobs :
             /\ \A i \in 1..Len(completed_chunks) : completed_chunks[i].batch_id # b
             /\ \A i \in 1..Len(excel_outputs) : excel_outputs[i].chunk_id # remote[b].input
             /\ \A i \in 1..Len(downloads) : downloads[i] # b
             /\ recon_pc = "cleanup" =>
                   \A sku \in ChunkSkus(remote[b].input) :
                       sku \in missing_skus \/ ClassifiedSomewhere(sku))

\* two chunks; the job of chunk 0 completed without output and was removed,
\* the job of chunk 1 gave a dataset; after reconciliation the identifier of
\* chunk 0 is in the residual
C15_Witness ==
    /\ run_pc = "done"
    /\ recon_pc = "cleanup"
    /\ Len(remote) = 2
    /\ NoOutputJobs = {1}
    /\ Len(excel_outputs) = 1
    /\ master.exists
    /\ original_df[1] \in missing_skus
    /\ ~ClassifiedSomewhere(original_df[1])

(***************************************************************************)
(* C16                                                                     *)
(***************************************************************************)
\* the chunk has a dataset
HasDataset(chunk_id) == \E i \in 1..Len(excel_outputs) : excel_outputs[i].chunk_id = chunk_id

\* C16 as claimed: when the run has terminated, the datasets of all submitted
\* chunks have been written, or none has.
C16_AsClaimed ==
    run_pc = "done" =>
        \/ excel_outputs = <<>>
        \/ \A b \in 1..Len(remote) : HasDataset(remote[b].input)

\* C16 amended: output is all-or-nothing per chunk, not per run.  The
\* datasets written are exactly those of the completed-chunks list, one per
\* chunk, each whole (its row count is the number of its records) and each of
\* a job that completed with an output file that was downloaded; a chunk whose
\* job failed, expired or had no output has no dataset, whatever the others have.
C16_Amended ==
    /\ Len(excel_outputs) = Len(completed_chunks)
    /\ \A i \in 1..Len(excel_outputs) :
          /\ excel_outputs[i].chunk_id = completed_chunks[i].chunk_id
          /\ Len(excel_outputs[i].rows) = completed_chunks[i].row_count
          /\ completed_chunks[i].batch_id \in 1..Len(remote)
          /\ remote[completed_chunks[i].batch_id].status = "completed"
          /\ remote[completed_chunks[i].batch_id].output
          /\ remote[completed_chunks[i].batch_id].input = excel_outputs[i].chunk_id
          /\ \E d \in 1..Len(downloads) : downloads[d] = completed_chunks[i].batch_id
    /\ \A i, j \in 1..Len(excel_outputs) :
          excel_outputs[i].chunk_id = excel_outputs[j].chunk_id => i = j
    /\ \A b \in 1..Len(remote) :
          (remote[b].status \in {"failed", "expired"} \/ b \in NoOutputJobs) =>
              ~HasDataset(remote[b].input)

\* the run is over: the job of chunk 0 failed, the dataset of chunk 1 is written
C16_Witness ==
    /\ run_pc = "done"
    /\ Len(remote) = 2
    /\ remote[1].status = "failed"
    /\ Len(excel_outputs) = 1
    /\ excel_outputs[1].chunk_id = "1"

(***************************************************************************)
(* C17                                                                     *)
(***************************************************************************)
Outstanding == {active_batches[i].batch_id : i \in 1..Len(active_batches)}

\* C17: a job leaves the outstanding set only at the end of a poll cycle in
\* which its status check returned completed or failed; a job is marked for
\* removal only by such a check; a job that is not outstanding is never added
\* again and no check is made of it; the output of a job is downloaded at
\* most once and gives at most one dataset.
C17_RemovedOnlyWhenFinalAndOnce ==
    [][/\ \A b \in Outstanding :
             b \notin Outstanding' =>
                 /\ CycleEndStep
                 /\ \E i \in 1..Len(completed_batches) : completed_batches[i] = b
                 /\ remote[b].status \in {"completed", "failed"}
       /\ (completed_batches' # completed_batches /\ completed_batches' # <<>>) =>
             /\ Polling
             /\ completed_batches' = Append(completed_batches, CurrentBatch.batch_id)
             /\ remote[CurrentBatch.batch_id].status \in {"completed", "failed"}
             /\ printed'.what # "Error checking batch"
       /\ \A b \in 1..Len(remote) : b \notin Outstanding => b \notin Outstanding'
       /\ (printed' # printed /\ printed'.batch_id # 0 /\ run_pc = "poll") =>
             printed'.batch_id \in Outstanding
       /\ downloads' # downloads =>
             /\ downloads' = Append(downloads, CurrentBatch.batch_id)
             /\ remote[CurrentBatch.batch_id].status = "completed"
             /\ \A i \in 1..Len(downloads) : downloads[i] # CurrentBatch.batch_id
       /\ completed_chunks' # completed_chunks =>
             /\ Len(completed_chunks') = Len(completed_chunks) + 1
             /\ downloads' # downloads
             /\ \A i \in 1..Len(completed_chunks) :
                   completed_chunks[i].batch_id # CurrentBatch.batch_id
      ]_vars

\* job 1 completed, was downloaded and removed; job 2, still running, is the
\* only one polled in the following cycle
C17_Witness ==
    /\ run_pc = "poll"
    /\ Outstanding = {2}
    /\ downloads = <<1>>
    /\ Len(completed_chunks) = 1
    /\ printed = Printed("in_progress", 2)
    /\ poll_idx = 2

(***************************************************************************)
(* C18                                                                     *)
(***************************************************************************)
\* lines 134-139 on the files read: what the master is made of
MasterOf(files) == DropDuplicates(Flatten(AllData(files)))

\* C18: when combine_latest_files has read two copies of one dataset D, the
\* master holds the records reconciling D alone gives, and combining the same
\* files a second time leaves the master as it is.
C18_DuplicateRunIdempotent ==
    [][/\ (/\ recon_pc' = "combine"
           /\ Len(latest_files') = 2
           /\ latest_files'[1].rows = latest_files'[2].rows) =>
              /\ master'.exists
              /\ master'.rows = MasterOf(<<latest_files'[1]>>)
       /\ (recon_pc = "combine" /\ recon_pc' = "combine" /\ latest_files' = latest_files) =>
              master' = master
      ]_vars

\* D = [A1:Bohrer-v2, A2:Kupplung] written by two runs of the same day
C18_Witness ==
    /\ recon_pc = "combine"
    /\ Len(latest_files) = 2
    /\ latest_files[1].rows = latest_files[2].rows
    /\ master.rows = <<Row(<<"A1">>, <<"Bohrer-v2">>), Row(<<"A2">>, <<"Kupplung">>)>>

(***************************************************************************)
(* C19                                                                     *)
(***************************************************************************)
\* the items of the requests of requests_chunk_<c>.jsonl, in order
ChunkItems(c) == Flatten([b \in 1..Len(batch_chunks[c]) |-> batch_chunks[c][b].items])

\* C19: in every chunk file written, each sub-batch holds between 1 and
\* BATCH_SIZE items, the chunk holds at most CHUNK_SIZE items, all of them
\* taken from the chunk's own stretch of the input, the custom_id of
\* sub-batch b of chunk c is chunk_<c>_batch_<b>, and no two requests of the
\* build have the same custom_id.
C19_SubBatchBoundsAndIds ==
    /\ \A c \in DOMAIN batch_chunks :
          /\ Len(ChunkItems(c)) <= chunk_size
          /\ c * chunk_size + Len(ChunkItems(c)) <= Len(df)
          /\ ChunkItems(c) = SubSeq(df, c * chunk_size + 1, c * chunk_size + Len(ChunkItems(c)))
          /\ \A b \in 1..Len(batch_chunks[c]) :
                /\ Len(batch_chunks[c][b].items) >= 1
                /\ Len(batch_chunks[c][b].items) <= batch_size
                /\ batch_chunks[c][b].custom_id = <<"chunk_", Str(c), "_batch_", Str(b - 1)>>
    /\ \A c, c2 \in DOMAIN batch_chunks :
          \A b \in 1..Len(batch_chunks[c]) : \A b2 \in 1..Len(batch_chunks[c2]) :
              batch_chunks[c][b].custom_id = batch_chunks[c2][b2].custom_id =>
                  (c = c2 /\ b = b2)

\* four items, CHUNK_SIZE 2, BATCH_SIZE 1: two chunks of two requests each
C19_Witness ==
    /\ build_pc = "done"
    /\ Len(df) = 4 /\ chunk_size = 2 /\ batch_size = 1
    /\ DOMAIN batch_chunks = {0, 1}
    /\ batch_chunks[1][2].custom_id = <<"chunk_", "1", "_batch_", "1">>
    /\ batch_chunks[0][2].custom_id = <<"chunk_", "0", "_batch_", "1">>

(***************************************************************************)
(* C20                                                                     *)
(***************************************************************************)
\* the completed-chunks entries of job b
EntriesOf(b) == {i \in 1..Len(completed_chunks) : completed_chunks[i].batch_id = b}

\* C20: when the poll loop has terminated, every job that was found completed
\* and has an output file has exactly one entry in the completed-chunks list
\* and its dataset is written; a job is not removed without one because its
\* download or processing raised.
C20_CompletedJobsHaveOneEntry ==
    run_pc = "done" =>
        \A b \in 1..Len(remote) :
            (remote[b].status = "completed" /\ remote[b].output) =>
                /\ Cardinality(EntriesOf(b)) = 1
                /\ HasDataset(remote[b].input)

(***************************************************************************)
(* C21                                                                     *)
(***************************************************************************)
\* the chunk ids the build invocation made last wrote: lines 148 and 163
LatestBuildChunks == {Str(i) : i \in 0..(TotalChunks - 1)}

\* main of run_batch_and_export.py lists the directory
RunStartStep == run_pc # "submit" /\ run_pc' = "submit"

\* C21: in a sequence of build and run invocations a run lists, and so
\* submits, exactly the chunks the latest build wrote, never a file an
\* earlier build left behind, and no two jobs of the service were given the
\* same chunk content.
C21_RunSubmitsLatestBuildOnly ==
    [][/\ RunStartStep => chunk_files' = SortedChunkIds(0..(TotalChunks - 1))
       /\ SubmissionStep => chunk_files[submit_idx] \in LatestBuildChunks
       /\ \A b \in 1..Len(remote') : \A c \in 1..Len(remote') :
             b # c => remote'[b].requests # remote'[c].requests]_vars

(***************************************************************************)
(* C22                                                                     *)
(***************************************************************************)
\* INPUT_EXCEL of build_requests_jsonl.py: the rows the next build loads
\* (none when the file does not exist)
NextBuildInput == missing_products_file.rows

\* the residual find_missing_products computes: line 50
FreshResidual == MissingSkus(Range(original_df), AllSkus(excel_outputs))

\* C22: after a reconciliation, by find_missing_products or by
\* find_remaining_missing_products, the file the next build reads holds
\* exactly the rows of the universe whose identifier is in the residual just
\* computed, in the order of the universe, and so no row when that residual
\* is empty.
C22_ResubmissionUnitIsResidual ==
    /\ recon_pc = "find_missing" => NextBuildInput = RowsIn(original_df, FreshResidual)
    /\ recon_pc = "cleanup" => NextBuildInput = RowsIn(original_df, missing_skus)

=============================================================================
